---------------------------- MODULE Spec2Model ----------------------------
(***************************************************************************)
(* cvecat: CVE identifier parsing, URL derivation and the sequential       *)
(* fetch / decode / render run loop.                                       *)
(*                                                                         *)
(* Text is modelled as a sequence of one-character strings, so that        *)
(* splitting, padding, slicing, trimming and matching are computed the way *)
(* the Go code computes them.  Fixed multi-character literals of the code  *)
(* (the URL base, ".json") appear as single tokens of such a sequence.     *)
(***************************************************************************)
EXTENDS Integers, Sequences, FiniteSets, TLC

VARIABLES
    argv,      \* argvT: [format, dryrun, verbose], read-only after args()
    pc,        \* where the process is: scan, run, fetch, decode, format, emit, done,
               \* crashed (parser harness: parse, parsed; escape harness: escape,
               \* escaped, escaped2)
    nscan,     \* number of lines the scanner has returned so far
    now,       \* the calendar year time.Now() reports
    stdin,     \* the bytes of standard input not yet read
    cve,       \* main: the trimmed identifier of this iteration
    url,       \* run: the location geturl returned
    resp,      \* read: the response http.Get returned
    body,      \* cat: the bytes read returned
    buf,       \* the []byte returned up the call chain to main
    err,       \* the error returned up the call chain to main
    steps,     \* the stages performed for the identifier of this iteration
    reqs,      \* the URLs handed to http.Get in this iteration, in order
    out,       \* the writes to standard output in this iteration, in order
    diag,      \* the writes to standard error in this iteration, in order
    pin,       \* parser harness: the parts an identifier was written from
    pid,       \* parser harness: the identifier handed to parseID and geturl
    pres,      \* parser harness: what parseID returned
    ures,      \* parser harness: what geturl returned
    mdin,      \* escape harness: the text handed to mdescape
    mdout,     \* escape harness: mdescape(mdin)
    mdout2     \* escape harness: mdescape(mdescape(mdin))

vars == <<argv, pc, nscan, now, stdin, cve, url, resp, body, buf, err, steps,
          reqs, out, diag, pin, pid, pres, ures, mdin, mdout, mdout2>>

harnessVars == <<pin, pid, pres, ures, mdin, mdout, mdout2>>

-----------------------------------------------------------------------------
(* Bounds of the model *)

\* longest sequence-number part the parser harness writes
MaxRefLen == 5

-----------------------------------------------------------------------------
(* Text helpers (Go: strings, strconv, regexp) *)

Digits == {"0", "1", "2", "3", "4", "5", "6", "7", "8", "9"}

DigitSeq == <<"0", "1", "2", "3", "4", "5", "6", "7", "8", "9">>

LowerAlpha == <<"a", "b", "c", "d", "e", "f", "g", "h", "i", "j", "k", "l", "m",
                "n", "o", "p", "q", "r", "s", "t", "u", "v", "w", "x", "y", "z">>

UpperAlpha == <<"A", "B", "C", "D", "E", "F", "G", "H", "I", "J", "K", "L", "M",
                "N", "O", "P", "Q", "R", "S", "T", "U", "V", "W", "X", "Y", "Z">>

\* strings.ToUpper on one character
ToUpperChar(c) ==
    IF \E i \in 1..Len(LowerAlpha) : LowerAlpha[i] = c
    THEN UpperAlpha[CHOOSE i \in 1..Len(LowerAlpha) : LowerAlpha[i] = c]
    ELSE c

\* strings.ToUpper
ToUpper(s) == [i \in 1..Len(s) |-> ToUpperChar(s[i])]

\* strings.Repeat of a one-character string
Repeat(c, n) == [i \in 1..n |-> c]

\* strconv.Itoa for a non-negative integer
RECURSIVE Itoa(_)
Itoa(n) ==
    IF n < 10 THEN <<DigitSeq[n + 1]>>
    ELSE Append(Itoa(n \div 10), DigitSeq[(n % 10) + 1])

\* strings.Split(s, sep) for a one-character separator: always at least one part
RECURSIVE Split(_, _)
Split(s, sep) ==
    IF \E i \in 1..Len(s) : s[i] = sep
    THEN LET i == CHOOSE k \in 1..Len(s) :
                      s[k] = sep /\ \A j \in 1..(k - 1) : s[j] # sep
         IN <<SubSeq(s, 1, i - 1)>> \o Split(SubSeq(s, i + 1, Len(s)), sep)
    ELSE <<s>>

\* strings.Join
RECURSIVE Join(_, _)
Join(elems, sep) ==
    IF Len(elems) = 0 THEN <<>>
    ELSE IF Len(elems) = 1 THEN elems[1]
    ELSE elems[1] \o <<sep>> \o Join(Tail(elems), sep)

AllDigits(s) == \A i \in 1..Len(s) : s[i] \in Digits

-----------------------------------------------------------------------------
(* Identifier parser and URL builder *)

\* the prefix literal "CVE"
CVE == <<"C", "V", "E">>

\* width the sequence number is padded to
PadWidth == 4

\* number of trailing characters of the sequence number the bucket drops
BucketDrop == 3

errNil == "nil"
errInvalidCVE == "invalid CVE"
errInvalidCVEPrefix == "invalid CVE prefix"
errInvalidCVEYear == "invalid CVE year"
errInvalidCVEID == "invalid CVE identifier"

\* a year pattern that lost its anchors: digits of any number
MatchYearUnanchored(year) == AllDigits(year)

\* regexp ^[0-9]{4}$
MatchYear(year) == Len(year) = 4 /\ AllDigits(year)

\* regexp ^[0-9][0-9][0-9][0-9]+$
MatchRef(ref) == Len(ref) >= 4 /\ AllDigits(ref)

\* padding on the wrong side
PadRight(ref) ==
    IF Len(ref) < PadWidth THEN ref \o Repeat("0", PadWidth - Len(ref)) ELSE ref

\* if len(ref) < 4 { ref = strings.Repeat("0", 4-len(ref)) + ref }
Pad(ref) ==
    IF Len(ref) < PadWidth THEN Repeat("0", PadWidth - Len(ref)) \o ref ELSE ref

\* the two-part case with year and sequence number taken in the wrong order
SplitPartsSwapped(p, year0) ==
    CASE Len(p) = 1 -> [prefix |-> CVE, year |-> Itoa(year0), ref |-> p[1], err |-> errNil]
      [] Len(p) = 2 -> [prefix |-> CVE, year |-> p[2], ref |-> p[1], err |-> errNil]
      [] Len(p) = 3 -> [prefix |-> ToUpper(p[1]), year |-> p[2], ref |-> p[3], err |-> errNil]
      [] OTHER      -> [prefix |-> CVE, year |-> <<>>, ref |-> <<>>, err |-> errInvalidCVE]

\* the switch on len(p): which part is the prefix, the year and the sequence number
SplitParts(p, year0) ==
    CASE Len(p) = 1 -> [prefix |-> CVE, year |-> Itoa(year0), ref |-> p[1], err |-> errNil]
      [] Len(p) = 2 -> [prefix |-> CVE, year |-> p[1], ref |-> p[2], err |-> errNil]
      [] Len(p) = 3 -> [prefix |-> ToUpper(p[1]), year |-> p[2], ref |-> p[3], err |-> errNil]
      [] OTHER      -> [prefix |-> CVE, year |-> <<>>, ref |-> <<>>, err |-> errInvalidCVE]

\* the checks with the year tested before the prefix
ValidateYearFirst(prefix, year, ref) ==
    IF ~MatchYear(year) THEN errInvalidCVEYear
    ELSE IF prefix # CVE THEN errInvalidCVEPrefix
    ELSE IF ~MatchRef(ref) THEN errInvalidCVEID
    ELSE errNil

\* the three checks, in the order of the code
Validate(prefix, year, ref) ==
    IF prefix # CVE THEN errInvalidCVEPrefix
    ELSE IF ~MatchYear(year) THEN errInvalidCVEYear
    ELSE IF ~MatchRef(ref) THEN errInvalidCVEID
    ELSE errNil

parseID(id, year0) ==
    LET s == SplitParts(Split(id, "-"), year0)
    IN IF s.err # errNil THEN s
       ELSE [prefix |-> s.prefix, year |-> s.year, ref |-> Pad(s.ref),
             err |-> Validate(s.prefix, s.year, Pad(s.ref))]

URLBase == "https://raw.githubusercontent.com/CVEProject/cvelistV5/main/cves"

\* ref[0:len(ref)-3]: a slice out of range panics
SliceOK(ref) == Len(ref) - BucketDrop >= 0

\* a bucket that drops one character too few
BucketOffByOne(ref) == SubSeq(ref, 1, Len(ref) - BucketDrop + 1)

Bucket(ref) == SubSeq(ref, 1, Len(ref) - BucketDrop)

\* fmt.Sprintf(".../%s/%sxxx/%s-%s-%s.json", year, ref[0:len(ref)-3], prefix, year, ref)
FormatURL(prefix, year, ref) ==
    <<URLBase, "/">> \o year \o <<"/">> \o Bucket(ref) \o <<"x", "x", "x", "/">>
        \o prefix \o <<"-">> \o year \o <<"-">> \o ref \o <<".json">>

Sentinel == <<"-">>

\* geturl: [url, err, panic]
geturl(id, year0) ==
    IF id = Sentinel THEN [url |-> Sentinel, err |-> errNil, panic |-> FALSE]
    ELSE LET r == parseID(id, year0)
         IN IF r.err # errNil THEN [url |-> <<>>, err |-> r.err, panic |-> FALSE]
            ELSE IF ~SliceOK(r.ref) THEN [url |-> <<>>, err |-> errNil, panic |-> TRUE]
            ELSE [url |-> FormatURL(r.prefix, r.year, r.ref), err |-> errNil,
                  panic |-> FALSE]

-----------------------------------------------------------------------------
(* Parser harness: identifiers written from parts, then parsed *)

StringsUpTo(chars, n) == UNION {[1..k -> chars] : k \in 0..n}

Years == {2019, 2026}

PrefixPool == {<<"C", "V", "E">>, <<"c", "v", "e">>, <<"X", "X", "X">>, <<"C", "v", "E">>}

YearPool == {<<"2", "0", "1", "9">>, <<"1", "9">>, <<"2", "0", "1", "9", "9">>,
             <<"2", "0", "1", "x">>, <<"x", "0", "1", "9">>, <<>>}

RefPool == StringsUpTo({"0", "7", "x"}, MaxRefLen)

PartsPool ==
    {<<r>> : r \in RefPool}
        \cup {<<y, r>> : y \in YearPool, r \in RefPool}
        \cup {<<p, y, r>> : p \in PrefixPool, y \in YearPool, r \in RefPool}
        \cup {<<p, y, r, r>> : p \in PrefixPool, y \in {<<"2", "0", "1", "9">>},
                               r \in {<<"5", "0", "0", "7">>, <<>>}}

noParse == [prefix |-> <<>>, year |-> <<>>, ref |-> <<>>, err |-> "unset"]
noURL == [url |-> <<>>, err |-> "unset", panic |-> FALSE]

-----------------------------------------------------------------------------
(* Errors and bytes of the run loop *)

\* an error value: nil, or a kind and the text err.Error() prints
nil == [kind |-> "nil", msg |-> <<>>]

errNoDescr == [kind |-> "nodescr", msg |-> <<"no description">>]

Whitespace == {" ", "\t", "\n", "\r"}

\* strings.TrimSpace
TrimSpace(s) ==
    IF \A i \in 1..Len(s) : s[i] \in Whitespace THEN <<>>
    ELSE LET first == CHOOSE i \in 1..Len(s) :
                          s[i] \notin Whitespace /\ \A j \in 1..(i - 1) : s[j] \in Whitespace
             last == CHOOSE i \in 1..Len(s) :
                         s[i] \notin Whitespace /\ \A j \in (i + 1)..Len(s) : s[j] \in Whitespace
         IN SubSeq(s, first, last)

-----------------------------------------------------------------------------
(* Record decoder: cve5.Timestamp and json.Unmarshal into cve5.CVE *)

\* length from which trim cuts the timestamp text
TrimLen == 19

Quote == "\""

\* strings.Trim(s, "\""): every leading and trailing quote is removed
TrimQuotes(s) ==
    IF \A i \in 1..Len(s) : s[i] = Quote THEN <<>>
    ELSE LET first == CHOOSE i \in 1..Len(s) :
                          s[i] # Quote /\ \A j \in 1..(i - 1) : s[j] = Quote
             last == CHOOSE i \in 1..Len(s) :
                         s[i] # Quote /\ \A j \in (i + 1)..Len(s) : s[j] = Quote
         IN SubSeq(s, first, last)

\* trim: the length test reads the raw bytes b, the slice is taken of the trimmed s
TrimPanics(b) == Len(b) >= TrimLen /\ Len(TrimQuotes(b)) < TrimLen

trim(b) ==
    IF Len(b) >= TrimLen THEN SubSeq(TrimQuotes(b), 1, TrimLen) ELSE TrimQuotes(b)

DigitVal(c) == (CHOOSE i \in 1..10 : DigitSeq[i] = c) - 1

IsLeap(y) == y % 4 = 0 /\ (y % 100 # 0 \/ y % 400 = 0)

DaysIn(m, y) ==
    IF m = 2 THEN (IF IsLeap(y) THEN 29 ELSE 28)
    ELSE IF m \in {4, 6, 9, 11} THEN 30 ELSE 31

\* time.Parse("2006-01-02T15:04:05", s) succeeds: year of 4 digits, month and day
\* of 2, hour of 1 or 2, minute and second of 2, an optional fraction after the
\* seconds, nothing else, and every field in range
TimeParseOK(s) ==
    LET n == Len(s)
        dig(i) == i <= n /\ s[i] \in Digits
        lit(i, c) == i <= n /\ s[i] = c
        num2(i) == 10 * DigitVal(s[i]) + DigitVal(s[i + 1])
        hw == IF dig(12) /\ dig(13) THEN 2 ELSE 1
        e == 17 + hw
    IN /\ dig(1) /\ dig(2) /\ dig(3) /\ dig(4)
       /\ lit(5, "-") /\ dig(6) /\ dig(7)
       /\ lit(8, "-") /\ dig(9) /\ dig(10)
       /\ lit(11, "T") /\ dig(12)
       /\ lit(12 + hw, ":") /\ dig(13 + hw) /\ dig(14 + hw)
       /\ lit(15 + hw, ":") /\ dig(16 + hw) /\ dig(17 + hw)
       /\ \/ n = e
          \/ /\ n >= e + 2
             /\ s[e + 1] \in {".", ","}
             /\ \A i \in (e + 2)..n : s[i] \in Digits
       /\ num2(6) \in 1..12
       /\ (IF hw = 2 THEN num2(12) ELSE DigitVal(s[12])) < 24
       /\ num2(13 + hw) < 60
       /\ num2(16 + hw) < 60
       /\ num2(9) >= 1
       /\ num2(9) <= DaysIn(num2(6),
                            1000 * DigitVal(s[1]) + 100 * DigitVal(s[2]) + num2(3))

\* Timestamp.UnmarshalJSON(b): "ok", "error", or "panic" (slice bounds out of range)
TimestampUnmarshalJSON(b) ==
    IF TrimPanics(b) THEN "panic"
    ELSE IF TimeParseOK(trim(b)) THEN "ok"
    ELSE "error"

\* the timestamp fields of a document, decoded in document order; the first
\* that does not decode ends the decoding
RECURSIVE DecodeTimestamps(_)
DecodeTimestamps(ts) ==
    IF ts = <<>> THEN "ok"
    ELSE LET r == TimestampUnmarshalJSON(Head(ts))
         IN IF r # "ok" THEN r ELSE DecodeTimestamps(Tail(ts))

\* json.Unmarshal(body, &cve): "ok", "error", or "panic"
Unmarshal(b) ==
    IF ~b.json THEN "error" ELSE DecodeTimestamps(b.ts)

errDecode == [kind |-> "decode", msg |-> <<"json: cannot unmarshal">>]

-----------------------------------------------------------------------------
(* Bodies: the bytes of a document together with what these bytes spell *)

tsFraction == \* "2023-11-17T12:57:41.538666"
    <<"\"", "2", "0", "2", "3", "-", "1", "1", "-", "1", "7", "T", "1", "2", ":",
      "5", "7", ":", "4", "1", ".", "5", "3", "8", "6", "6", "6", "\"">>

tsZulu == \* "2010-05-24T00:00:00Z"
    <<"\"", "2", "0", "1", "0", "-", "0", "5", "-", "2", "4", "T", "0", "0", ":",
      "0", "0", ":", "0", "0", "Z", "\"">>

tsOffset == \* "2023-12-13T00:00:00+00:00"
    <<"\"", "2", "0", "2", "3", "-", "1", "2", "-", "1", "3", "T", "0", "0", ":",
      "0", "0", ":", "0", "0", "+", "0", "0", ":", "0", "0", "\"">>

tsPlain == \* "2021-02-28T23:59:59"
    <<"\"", "2", "0", "2", "1", "-", "0", "2", "-", "2", "8", "T", "2", "3", ":",
      "5", "9", ":", "5", "9", "\"">>

tsWord == \* "yesterday"
    <<"\"", "y", "e", "s", "t", "e", "r", "d", "a", "y", "\"">>

tsBadDay == \* "2023-02-30T12:57:41"
    <<"\"", "2", "0", "2", "3", "-", "0", "2", "-", "3", "0", "T", "1", "2", ":",
      "5", "7", ":", "4", "1", "\"">>

tsShort == \* "2023-11-17T12:57:4"
    <<"\"", "2", "0", "2", "3", "-", "1", "1", "-", "1", "7", "T", "1", "2", ":",
      "5", "7", ":", "4", "\"">>

tsMinute == \* "2023-11-17T12:57"
    <<"\"", "2", "0", "2", "3", "-", "1", "1", "-", "1", "7", "T", "1", "2", ":",
      "5", "7", "\"">>

\* no bytes at all
EmptyBody == [bytes |-> <<>>, json |-> FALSE, ts |-> <<>>, id |-> "", descr |-> <<>>]

\* the text a server sends with a 404; not JSON
NotFoundBody ==
    [bytes |-> <<"\n", " ", "not found", " ", "\n">>, json |-> FALSE, ts |-> <<>>,
     id |-> "", descr |-> <<>>]

\* a complete record
GoodDoc ==
    [bytes |-> <<"{", "CVE-2019-5007", "}">>, json |-> TRUE,
     ts |-> <<tsFraction, tsZulu, tsOffset, tsPlain>>,
     id |-> "CVE-2019-5007", descr |-> <<<<"A flaw", "\n", "in X.">>>>]

\* a record with an empty description list
NoDescrDoc ==
    [bytes |-> <<"{", "CVE-2019-0007", "}">>, json |-> TRUE, ts |-> <<tsZulu>>,
     id |-> "CVE-2019-0007", descr |-> <<>>]

\* records with a timestamp outside the grammar
WordTsDoc ==
    [bytes |-> <<"{", "CVE-2019-5008", "}">>, json |-> TRUE, ts |-> <<tsPlain, tsWord, tsShort>>,
     id |-> "CVE-2019-5008", descr |-> <<<<"A flaw.">>>>]

BadDayTsDoc ==
    [bytes |-> <<"{", "CVE-2019-5009", "}">>, json |-> TRUE, ts |-> <<tsBadDay>>,
     id |-> "CVE-2019-5009", descr |-> <<<<"A flaw.">>>>]

MinuteTsDoc ==
    [bytes |-> <<"{", "CVE-2019-5010", "}">>, json |-> TRUE, ts |-> <<tsMinute>>,
     id |-> "CVE-2019-5010", descr |-> <<<<"A flaw.">>>>]

ShortTsDoc ==
    [bytes |-> <<"{", "CVE-2019-5011", "}">>, json |-> TRUE, ts |-> <<tsZulu, tsShort>>,
     id |-> "CVE-2019-5011", descr |-> <<<<"A flaw.">>>>]

Bodies == {EmptyBody, NotFoundBody, GoodDoc, NoDescrDoc, WordTsDoc, BadDayTsDoc,
           MinuteTsDoc, ShortTsDoc}

StatusOK == 200

\* what http.Get and the read of the response body can come back with
Responses ==
    {[fail |-> TRUE, status |-> 0, body |-> EmptyBody]}
        \cup {[fail |-> FALSE, status |-> StatusOK, body |-> b] : b \in Bodies}
        \cup {[fail |-> FALSE, status |-> 404, body |-> b] : b \in {EmptyBody, NotFoundBody}}
        \cup {[fail |-> FALSE, status |-> 500, body |-> GoodDoc]}

noResp == [fail |-> FALSE, status |-> 0, body |-> EmptyBody]

StdinPool == {EmptyBody, NotFoundBody, GoodDoc, NoDescrDoc, ShortTsDoc}

errTransport == [kind |-> "transport", msg |-> <<"Get: dial tcp: no such host">>]

\* a read that does not look at the status code
readHTTPAnyStatus(r) ==
    IF r.fail THEN [body |-> EmptyBody, err |-> errTransport]
    ELSE [body |-> r.body, err |-> nil]

\* read, for a URL: the fmt.Errorf("%d: %s", ...) of a status that is not 200
readHTTP(r) ==
    IF r.fail THEN [body |-> EmptyBody, err |-> errTransport]
    ELSE IF r.status # StatusOK
    THEN [body |-> EmptyBody,
          err |-> [kind |-> "status",
                   msg |-> Itoa(r.status) \o <<": ">> \o TrimSpace(r.body.bytes)]]
    ELSE [body |-> r.body, err |-> nil]

-----------------------------------------------------------------------------
(* Template renderer: text/template over cvecat.Data, with the helper "replace" *)

Text(t) == [op |-> "text", arg |-> t, pat |-> "", valid |-> TRUE, repl |-> ""]
FieldRef(f) == [op |-> "field", arg |-> f, pat |-> "", valid |-> TRUE, repl |-> ""]
ReplaceCall(f, p, v, r) == [op |-> "replace", arg |-> f, pat |-> p, valid |-> v, repl |-> r]

\* --format json: the template text is the word json
FormatJSON == [src |-> "json", parses |-> TRUE, nodes |-> <<Text("json")>>]

\* the built-in default of --format
FormatDefault ==
    [src |-> "*{{.CVE.CveMetadata.CveID}}*: {{ replace (index .CVE.Containers.Cna.Descriptions 0).Value \"(?m)\\n\" \" \" }}\n",
     parses |-> TRUE,
     nodes |-> <<Text("*"), FieldRef("CveID"), Text("*: "),
                 ReplaceCall("Descr0", "\n", TRUE, " "), Text("\n")>>]

\* a template that does not parse
FormatSyntax == [src |-> "{{.CVE", parses |-> FALSE, nodes |-> <<>>]

\* a template whose last action names a field the data does not have
FormatPartial ==
    [src |-> "ID: {{.CVE.CveMetadata.CveID}} {{.CVE.Nope}}\n", parses |-> TRUE,
     nodes |-> <<Text("ID: "), FieldRef("CveID"), Text(" "), FieldRef("Nope"), Text("\n")>>]

\* a template that calls replace with a pattern that does not compile
FormatBadRegex ==
    [src |-> "{{ replace (index .CVE.Containers.Cna.Descriptions 0).Value \"(\" \" \" }}\n",
     parses |-> TRUE,
     nodes |-> <<ReplaceCall("Descr0", "(", FALSE, " "), Text("\n")>>]

Formats == {FormatJSON, FormatDefault, FormatSyntax, FormatPartial, FormatBadRegex}

errTemplate == [kind |-> "template", msg |-> <<"template: format: unclosed action">>]
errExec == [kind |-> "exec", msg |-> <<"template: format: can't evaluate field">>]

\* the value of a field of cvecat.Data{CVE, URL, Version}
Field(data, name) ==
    CASE name = "CveID"  -> [ok |-> TRUE, val |-> <<data.cve.id>>]
      [] name = "URL"    -> [ok |-> TRUE, val |-> data.url]
      [] name = "Descr0" -> IF Len(data.cve.descr) >= 1
                            THEN [ok |-> TRUE, val |-> data.cve.descr[1]]
                            ELSE [ok |-> FALSE, val |-> <<>>]
      [] OTHER           -> [ok |-> FALSE, val |-> <<>>]

\* re.ReplaceAllString for a pattern that matches one character
ReplaceAllString(s, pat, repl) == [i \in 1..Len(s) |-> IF s[i] = pat THEN repl ELSE s[i]]

\* a helper that reports a pattern that does not compile and returns no text
replaceDropsText(s, pat, valid, repl) ==
    IF ~valid THEN [val |-> <<>>, diag |-> <<<<"error: ", "error parsing regexp">>>>]
    ELSE [val |-> ReplaceAllString(s, pat, repl), diag |-> <<>>]

\* the helper replace: a pattern that does not compile is reported and s returned
replace(s, pat, valid, repl) ==
    IF ~valid THEN [val |-> s, diag |-> <<<<"error: ", "error parsing regexp">>>>]
    ELSE [val |-> ReplaceAllString(s, pat, repl), diag |-> <<>>]

\* one node of the template: what it writes, or that it fails
EvalNode(n, data) ==
    CASE n.op = "text"  -> [ok |-> TRUE, val |-> <<n.arg>>, diag |-> <<>>]
      [] n.op = "field" -> [ok |-> Field(data, n.arg).ok, val |-> Field(data, n.arg).val,
                            diag |-> <<>>]
      [] OTHER          -> IF ~Field(data, n.arg).ok
                           THEN [ok |-> FALSE, val |-> <<>>, diag |-> <<>>]
                           ELSE LET r == replace(Field(data, n.arg).val, n.pat, n.valid, n.repl)
                                IN [ok |-> TRUE, val |-> r.val, diag |-> r.diag]

\* tmpl.Execute(&buf, data): the nodes in order, each written as it is evaluated
RECURSIVE Execute(_, _, _, _)
Execute(nodes, data, acc, dg) ==
    IF nodes = <<>> THEN [buf |-> acc, err |-> nil, diag |-> dg]
    ELSE LET r == EvalNode(Head(nodes), data)
         IN IF ~r.ok THEN [buf |-> acc, err |-> errExec, diag |-> dg]
            ELSE Execute(Tail(nodes), data, acc \o r.val, dg \o r.diag)

\* a format that returns no bytes with an error of Execute
formatNoPartial(f, data) ==
    IF ~f.parses THEN [buf |-> <<>>, err |-> errTemplate, diag |-> <<>>]
    ELSE LET r == Execute(f.nodes, data, <<>>, <<>>)
         IN IF r.err # nil THEN [buf |-> <<>>, err |-> r.err, diag |-> r.diag] ELSE r

\* format(f, data): [buf, err] and what the helpers wrote to standard error
format(f, data) ==
    IF ~f.parses THEN [buf |-> <<>>, err |-> errTemplate, diag |-> <<>>]
    ELSE Execute(f.nodes, data, <<>>, <<>>)

-----------------------------------------------------------------------------
(* Markdown escaping: the template helper "mdescape" *)

\* the grave accent, a character that cannot be written in a string here
Grave == "grave accent"

\* the old/new pairs of strings.NewReplacer, in the order of the source
markdownEscaper ==
    << <<"\\", <<"\\", "\\">> >>,
       <<"*", <<"\\", "*">> >>,
       <<"_", <<"\\", "_">> >>,
       <<"#", <<"\\", "#">> >>,
       <<Grave, <<"\\", Grave>> >>,
       <<"[", <<"\\", "[">> >>,
       <<"]", <<"\\", "]">> >>,
       <<"(", <<"\\", "(">> >>,
       <<")", <<"\\", ")">> >>,
       <<">", <<"\\", ">">> >>,
       <<"+", <<"\\", "+">> >>,
       <<"-", <<"\\", "-">> >>,
       <<".", <<"\\", ".">> >>,
       <<"!", <<"\\", "!">> >>,
       <<"|", <<"\\", "|">> >>,
       <<"~", <<"\\", "~">> >> >>

\* what a Replacer writes for one character of its input: the new string of
\* the first pair whose old string is the character, or the character itself
ReplaceChar(pairs, c) ==
    IF \E i \in 1..Len(pairs) : pairs[i][1] = c
    THEN pairs[CHOOSE i \in 1..Len(pairs) :
                   pairs[i][1] = c /\ \A j \in 1..(i - 1) : pairs[j][1] # c][2]
    ELSE <<c>>

\* Replacer.Replace for old strings of one character: one pass over the input,
\* left to right; what was written is not read again
RECURSIVE Replace(_, _)
Replace(pairs, text) ==
    IF text = <<>> THEN <<>>
    ELSE ReplaceChar(pairs, Head(text)) \o Replace(pairs, Tail(text))

\* escaping as one pass per pair, the pair of the backslash taken last: the
\* backslashes the earlier passes wrote are escaped again
mdescapeBackslashLast(text) ==
    Replace(<<markdownEscaper[1]>>, Replace(Tail(markdownEscaper), text))

\* mdescape(text) == markdownEscaper.Replace(text)
mdescape(text) == Replace(markdownEscaper, text)

-----------------------------------------------------------------------------
(* Run loop *)

\* highest --verbose the model sets
MaxVerbose == 4

\* number of lines the scanner returns at most
MaxLines == 3

Configs == [format : Formats, dryrun : BOOLEAN, verbose : 0..MaxVerbose]

lineFull == \* "CVE-2019-5007"
    <<"C", "V", "E", "-", "2", "0", "1", "9", "-", "5", "0", "0", "7">>
linePadded == \* " cve-2019-07\t"
    <<" ", "c", "v", "e", "-", "2", "0", "1", "9", "-", "0", "7", "\t">>
lineBare == \* "10210"
    <<"1", "0", "2", "1", "0">>
lineBadPrefix == \* "XXX-2019-5007"
    <<"X", "X", "X", "-", "2", "0", "1", "9", "-", "5", "0", "0", "7">>
lineBadYear == \* "CVE-19-5007"
    <<"C", "V", "E", "-", "1", "9", "-", "5", "0", "0", "7">>
lineBadRef == \* "CVE-2019-50x7"
    <<"C", "V", "E", "-", "2", "0", "1", "9", "-", "5", "0", "x", "7">>
lineFourParts == \* "CVE-2019-5007-1"
    <<"C", "V", "E", "-", "2", "0", "1", "9", "-", "5", "0", "0", "7", "-", "1">>
lineBlank == \* two spaces
    <<" ", " ">>

LinePool == {lineFull, linePadded, lineBare, lineBadPrefix, lineBadYear, lineBadRef,
             lineFourParts, Sentinel, lineBlank}

Init ==
    /\ argv \in Configs
    /\ pc = "scan"
    /\ nscan = 0
    /\ now \in Years
    /\ stdin \in StdinPool
    /\ cve = <<>>
    /\ url = <<>>
    /\ resp = noResp
    /\ body = EmptyBody
    /\ buf = <<>>
    /\ err = nil
    /\ steps = {}
    /\ reqs = <<>>
    /\ out = <<>>
    /\ diag = <<>>
    /\ pin = <<>>
    /\ pid = <<>>
    /\ pres = noParse
    /\ ures = noURL
    /\ mdin = <<>>
    /\ mdout = <<>>
    /\ mdout2 = <<>>

\* main: scanner.Scan() returns a line; it is trimmed, and a blank one skipped
ScanLine ==
    /\ pc = "scan"
    /\ nscan < MaxLines
    /\ \E line \in LinePool :
        /\ cve' = TrimSpace(line)
        /\ pc' = IF TrimSpace(line) = <<>> THEN "scan" ELSE "run"
    /\ nscan' = nscan + 1
    /\ url' = <<>>
    /\ resp' = noResp
    /\ body' = EmptyBody
    /\ buf' = <<>>
    /\ err' = nil
    /\ steps' = {}
    /\ reqs' = <<>>
    /\ out' = <<>>
    /\ diag' = <<>>
    /\ UNCHANGED <<argv, now, stdin>>
    /\ UNCHANGED harnessVars

\* main: scanner.Scan() returns false; a scanner error is reported
ScanEnd ==
    /\ pc = "scan"
    /\ pc' = "done"
    /\ \E failed \in BOOLEAN :
        diag' = IF failed THEN Append(diag, <<"error:", " ", "read error", "\n">>) ELSE diag
    /\ UNCHANGED <<argv, nscan, now, stdin, cve, url, resp, body, buf, err, steps, reqs, out>>
    /\ UNCHANGED harnessVars

\* the line run writes for an identifier that does not parse
ParseErrorLine(id, e) ==
    <<"error: ">> \o id \o <<": ", e, ": format is CVE-<YYYY>-<NNNN...>\n">>

\* a run that does not look at --dryrun
DryrunIgnored(a) == FALSE

\* run: if argv.dryrun { return []byte{}, nil }
Dryrun(a) == a.dryrun

\* argv.run, up to the call of cat
Run ==
    /\ pc = "run"
    /\ \E y \in {n \in Years : n >= now} :
        /\ now' = y
        /\ LET r == geturl(cve, y)
           IN /\ steps' = steps \cup {"parse"}
              /\ IF r.panic
                 THEN /\ pc' = "crashed"
                      /\ diag' = Append(diag, <<"panic: runtime error: slice bounds out of range">>)
                      /\ UNCHANGED <<url, buf, err>>
                 ELSE IF r.err # errNil
                 THEN /\ diag' = IF argv.verbose > 0
                                 THEN Append(diag, ParseErrorLine(cve, r.err))
                                 ELSE diag
                      /\ buf' = <<>>
                      /\ err' = nil
                      /\ pc' = "emit"
                      /\ UNCHANGED url
                 ELSE /\ diag' = IF argv.verbose > 1
                                 THEN Append(diag, r.url \o <<"\n">>)
                                 ELSE diag
                      /\ url' = r.url
                      /\ IF Dryrun(argv)
                         THEN buf' = <<>> /\ err' = nil /\ pc' = "emit"
                         ELSE pc' = "fetch" /\ UNCHANGED <<buf, err>>
    /\ UNCHANGED <<argv, nscan, stdin, cve, resp, body, reqs, out>>
    /\ UNCHANGED harnessVars

\* a cat that calls read once more after a first read that returned an error
CatReadRetry(r) ==
    /\ IF r.err # nil /\ reqs = <<>>
       THEN pc' = "fetch" /\ UNCHANGED <<body, buf, err, diag>>
       ELSE IF r.err # nil
       THEN buf' = r.body.bytes /\ err' = r.err /\ pc' = "emit" /\ UNCHANGED <<body, diag>>
       ELSE IF Len(r.body.bytes) = 0
       THEN buf' = r.body.bytes /\ err' = nil /\ pc' = "emit" /\ UNCHANGED <<body, diag>>
       ELSE IF argv.format.src = "json"
       THEN buf' = r.body.bytes /\ err' = nil /\ pc' = "emit" /\ UNCHANGED <<body, diag>>
       ELSE /\ diag' = IF argv.verbose > 2 THEN Append(diag, r.body.bytes) ELSE diag
            /\ body' = r.body
            /\ pc' = "decode"
            /\ UNCHANGED <<buf, err>>

\* a cat that does not look at the length of the body
CatReadNoEmptyCheck(r) ==
    /\ IF r.err # nil
       THEN buf' = r.body.bytes /\ err' = r.err /\ pc' = "emit" /\ UNCHANGED <<body, diag>>
       ELSE IF argv.format.src = "json"
       THEN buf' = r.body.bytes /\ err' = nil /\ pc' = "emit" /\ UNCHANGED <<body, diag>>
       ELSE /\ diag' = IF argv.verbose > 2 THEN Append(diag, r.body.bytes) ELSE diag
            /\ body' = r.body
            /\ pc' = "decode"
            /\ UNCHANGED <<buf, err>>

\* a cat that decodes and renders under --format json as under any other format
CatReadDecodesJSON(r) ==
    /\ IF r.err # nil
       THEN buf' = r.body.bytes /\ err' = r.err /\ pc' = "emit" /\ UNCHANGED <<body, diag>>
       ELSE IF Len(r.body.bytes) = 0
       THEN buf' = r.body.bytes /\ err' = nil /\ pc' = "emit" /\ UNCHANGED <<body, diag>>
       ELSE /\ diag' = IF argv.verbose > 2 THEN Append(diag, r.body.bytes) ELSE diag
            /\ body' = r.body
            /\ pc' = "decode"
            /\ UNCHANGED <<buf, err>>

\* argv.cat after read returned r: the error, the empty body, --format json, -verbose 3
CatRead(r) ==
    /\ IF r.err # nil
       THEN buf' = r.body.bytes /\ err' = r.err /\ pc' = "emit" /\ UNCHANGED <<body, diag>>
       ELSE IF Len(r.body.bytes) = 0
       THEN buf' = r.body.bytes /\ err' = nil /\ pc' = "emit" /\ UNCHANGED <<body, diag>>
       ELSE IF argv.format.src = "json"
       THEN buf' = r.body.bytes /\ err' = nil /\ pc' = "emit" /\ UNCHANGED <<body, diag>>
       ELSE /\ diag' = IF argv.verbose > 2 THEN Append(diag, r.body.bytes) ELSE diag
            /\ body' = r.body
            /\ pc' = "decode"
            /\ UNCHANGED <<buf, err>>

\* argv.cat calls read("-"): all of standard input is the body
FetchStdin ==
    /\ pc = "fetch"
    /\ url = Sentinel
    /\ stdin' = EmptyBody
    /\ steps' = steps \cup {"stdin"}
    /\ CatRead([body |-> stdin, err |-> nil])
    /\ UNCHANGED <<argv, nscan, now, cve, url, resp, reqs, out>>
    /\ UNCHANGED harnessVars

\* argv.cat calls read(url): one http.Get
FetchHTTP ==
    /\ pc = "fetch"
    /\ url # Sentinel
    /\ reqs' = Append(reqs, url)
    /\ steps' = steps \cup {"http"}
    /\ \E r \in Responses :
        /\ resp' = r
        /\ CatRead(readHTTP(r))
    /\ UNCHANGED <<argv, nscan, now, stdin, cve, url, out>>
    /\ UNCHANGED harnessVars

\* a cat that writes the decoded record already at -verbose 3
DecodeLogsAtThree ==
    /\ pc = "decode"
    /\ steps' = steps \cup {"decode"}
    /\ LET d == Unmarshal(body)
       IN IF d = "panic"
          THEN /\ pc' = "crashed"
               /\ diag' = Append(diag, <<"panic: runtime error: slice bounds out of range">>)
               /\ UNCHANGED <<buf, err>>
          ELSE IF d = "error"
          THEN buf' = body.bytes /\ err' = errDecode /\ pc' = "emit" /\ UNCHANGED diag
          ELSE /\ diag' = IF argv.verbose > 2 THEN Append(diag, <<"%+v", body.id>>) ELSE diag
               /\ IF Len(body.descr) = 0
                  THEN buf' = body.bytes /\ err' = errNoDescr /\ pc' = "emit"
                  ELSE pc' = "format" /\ UNCHANGED <<buf, err>>
    /\ UNCHANGED <<argv, nscan, now, stdin, cve, url, resp, body, reqs, out>>
    /\ UNCHANGED harnessVars

\* argv.cat: json.Unmarshal, -verbose 4, the description check
Decode ==
    /\ pc = "decode"
    /\ steps' = steps \cup {"decode"}
    /\ LET d == Unmarshal(body)
       IN IF d = "panic"
          THEN /\ pc' = "crashed"
               /\ diag' = Append(diag, <<"panic: runtime error: slice bounds out of range">>)
               /\ UNCHANGED <<buf, err>>
          ELSE IF d = "error"
          THEN buf' = body.bytes /\ err' = errDecode /\ pc' = "emit" /\ UNCHANGED diag
          ELSE /\ diag' = IF argv.verbose > 3 THEN Append(diag, <<"%+v", body.id>>) ELSE diag
               /\ IF Len(body.descr) = 0
                  THEN buf' = body.bytes /\ err' = errNoDescr /\ pc' = "emit"
                  ELSE pc' = "format" /\ UNCHANGED <<buf, err>>
    /\ UNCHANGED <<argv, nscan, now, stdin, cve, url, resp, body, reqs, out>>
    /\ UNCHANGED harnessVars

\* argv.cat: format(argv.format, data)
Format ==
    /\ pc = "format"
    /\ steps' = steps \cup {"render"}
    /\ LET f == format(argv.format, [cve |-> body, url |-> url])
       IN /\ buf' = f.buf
          /\ err' = f.err
          /\ diag' = diag \o f.diag
    /\ pc' = "emit"
    /\ UNCHANGED <<argv, nscan, now, stdin, cve, url, resp, body, reqs, out>>
    /\ UNCHANGED harnessVars

\* an error line that lacks the message of the error
ErrorLineNoMessage(e) == <<"error:", " ", "\n">>

\* the line main writes for an error
ErrorLine(e) == <<"error:", " ">> \o e.msg \o <<"\n">>

\* main, after argv.run returned buf and err
Emit ==
    /\ pc = "emit"
    /\ IF err # nil
       THEN diag' = Append(diag, ErrorLine(err)) /\ UNCHANGED out
       ELSE IF Len(buf) > 0
       THEN out' = Append(out, buf) /\ UNCHANGED diag
       ELSE UNCHANGED <<out, diag>>
    /\ pc' = "scan"
    /\ UNCHANGED <<argv, nscan, now, stdin, cve, url, resp, body, buf, err, steps, reqs>>
    /\ UNCHANGED harnessVars

Next == ScanLine \/ ScanEnd \/ Run \/ FetchStdin \/ FetchHTTP \/ Decode \/ Format \/ Emit

Spec == Init /\ [][Next]_vars

-----------------------------------------------------------------------------
(* Parser harness: an identifier is written from parts and handed to parseID *)
(* and geturl                                                               *)

InitParse ==
    /\ pin \in PartsPool
    /\ pid = Join(pin, "-")
    /\ pres = noParse
    /\ ures = noURL
    /\ now \in Years
    /\ argv = [format |-> FormatDefault, dryrun |-> TRUE, verbose |-> 0]
    /\ pc = "parse"
    /\ nscan = 0
    /\ stdin = EmptyBody
    /\ cve = <<>>
    /\ url = <<>>
    /\ resp = noResp
    /\ body = EmptyBody
    /\ buf = <<>>
    /\ err = nil
    /\ steps = {}
    /\ reqs = <<>>
    /\ out = <<>>
    /\ diag = <<>>
    /\ mdin = <<>>
    /\ mdout = <<>>
    /\ mdout2 = <<>>

\* one call of parseID(pid) and of geturl(pid), at a time of year y
ParseStep ==
    /\ pc = "parse"
    /\ \E y \in {n \in Years : n >= now} :
        /\ now' = y
        /\ pres' = parseID(pid, y)
        /\ ures' = geturl(pid, y)
    /\ pc' = "parsed"
    /\ UNCHANGED <<pin, pid, mdin, mdout, mdout2>>
    /\ UNCHANGED <<argv, nscan, stdin, cve, url, resp, body, buf, err, steps, reqs, out, diag>>

NextParse == ParseStep

SpecParse == InitParse /\ [][NextParse]_vars

-----------------------------------------------------------------------------
(* Escape harness: a text is handed to mdescape, and the result once more *)

\* longest text the escape harness writes
MaxTextLen == 2

\* the characters of the texts: those the escaper knows and three it does not
TextChars ==
    {markdownEscaper[i][1] : i \in 1..Len(markdownEscaper)} \cup {"A", " ", "\n"}

textExample == \* A*B|C
    <<"A", "*", "B", "|", "C">>

TextPool == StringsUpTo(TextChars, MaxTextLen) \cup {textExample}

InitEscape ==
    /\ mdin \in TextPool
    /\ mdout = <<>>
    /\ mdout2 = <<>>
    /\ pc = "escape"
    /\ pin = <<>>
    /\ pid = <<>>
    /\ pres = noParse
    /\ ures = noURL
    /\ now = 2026
    /\ argv = [format |-> FormatDefault, dryrun |-> TRUE, verbose |-> 0]
    /\ nscan = 0
    /\ stdin = EmptyBody
    /\ cve = <<>>
    /\ url = <<>>
    /\ resp = noResp
    /\ body = EmptyBody
    /\ buf = <<>>
    /\ err = nil
    /\ steps = {}
    /\ reqs = <<>>
    /\ out = <<>>
    /\ diag = <<>>

\* a template calls mdescape on a text
EscapeOnce ==
    /\ pc = "escape"
    /\ mdout' = mdescape(mdin)
    /\ pc' = "escaped"
    /\ UNCHANGED <<mdin, mdout2, pin, pid, pres, ures>>
    /\ UNCHANGED <<argv, nscan, now, stdin, cve, url, resp, body, buf, err, steps, reqs, out, diag>>

\* a template calls mdescape on what mdescape returned
EscapeTwice ==
    /\ pc = "escaped"
    /\ mdout2' = mdescape(mdout)
    /\ pc' = "escaped2"
    /\ UNCHANGED <<mdin, mdout, pin, pid, pres, ures>>
    /\ UNCHANGED <<argv, nscan, now, stdin, cve, url, resp, body, buf, err, steps, reqs, out, diag>>

NextEscape == EscapeOnce \/ EscapeTwice

SpecEscape == InitEscape /\ [][NextEscape]_vars

-----------------------------------------------------------------------------
(* Properties of the run loop and of the parser *)

\* the iteration of the current identifier is over (main is back at the scanner)
IterationOver == pc = "scan" /\ "parse" \in steps

\* C1: a failure of an identifier at any stage (parse, fetch, decode, render)
\* never terminates the process: the process is never ended by anything but the
\* end of the input.
C1_FailureIsolation == pc # "crashed"

\* u is <base>/<year>/<bucket>xxx/CVE-<year>-<seq>.json for a year of exactly 4
\* digits and a seq of 4 or more digits whose last 3 characters the bucket lacks
WellFormedURL(u) ==
    \E k \in 4..Len(u) :
        LET year == SubSeq(u, 3, 6)
            seq == SubSeq(u, Len(u) - k, Len(u) - 1)
        IN /\ \A i \in 1..4 : year[i] \in Digits
           /\ \A i \in 1..k : seq[i] \in Digits
           /\ u = <<URLBase, "/">> \o year \o <<"/">> \o SubSeq(seq, 1, k - 3)
                      \o <<"x", "x", "x", "/", "C", "V", "E", "-">> \o year
                      \o <<"-">> \o seq \o <<".json">>

\* C2: an identifier whose parse fails causes no HTTP request, and every URL
\* requested is built from the prefix CVE, a year of exactly 4 digits and a
\* sequence id of 4 or more digits.
C2_MalformedNeverFetched ==
    /\ \A i \in 1..Len(reqs) : WellFormedURL(reqs[i])
    /\ ("parse" \in steps /\ cve # Sentinel /\ parseID(cve, now).err # errNil)
           => (reqs = <<>> /\ "http" \notin steps /\ pc \in {"emit", "scan", "done"})

C2_Witness ==
    /\ IterationOver
    /\ parseID(cve, now).err = errInvalidCVEYear
    /\ reqs = <<>>

\* C3: for an identifier that passes validation geturl returns, without error
\* and without a slice out of range, <base>/<year>/<bucket>xxx/<prefix>-<year>-<seq>.json
\* where bucket is the padded sequence id without its last 3 characters: a
\* function of the normalized triple alone.
C3_URLDerivation ==
    (pc = "parsed" /\ pres.err = errNil) =>
        /\ ~ures.panic
        /\ ures.err = errNil
        /\ \E k \in 0..Len(pres.ref) :
            /\ Len(pres.ref) - k = 3
            /\ ures.url = <<URLBase, "/">> \o pres.year \o <<"/">> \o SubSeq(pres.ref, 1, k)
                              \o <<"x", "x", "x", "/">> \o pres.prefix \o <<"-">> \o pres.year
                              \o <<"-">> \o pres.ref \o <<".json">>

C3_Witness ==
    /\ pc = "parsed"
    /\ pres.err = errNil
    /\ pres.ref = <<"7", "0", "0", "0", "7">>
    /\ ures.url = <<URLBase, "/", "2", "0", "1", "9", "/", "7", "0", "x", "x", "x", "/",
                    "C", "V", "E", "-", "2", "0", "1", "9", "-", "7", "0", "0", "0", "7", ".json">>

FourDigits(s) == Len(s) = 4 /\ \A i \in 1..Len(s) : s[i] \in Digits

\* C4: for a 3-part identifier the checks run in the order prefix, year,
\* sequence id, and the error is that of the first check that fails.
C4_ValidationOrder ==
    (pc = "parsed" /\ Len(pin) = 3) =>
        LET prefixOK == ToUpper(pin[1]) = <<"C", "V", "E">>
            yearOK == FourDigits(pin[2])
            seqOK == \A i \in 1..Len(pin[3]) : pin[3][i] \in Digits
        IN /\ ~prefixOK => pres.err = errInvalidCVEPrefix
           /\ (prefixOK /\ ~yearOK) => pres.err = errInvalidCVEYear
           /\ (prefixOK /\ yearOK /\ ~seqOK) => pres.err = errInvalidCVEID
           /\ (prefixOK /\ yearOK /\ seqOK) => pres.err = errNil
           /\ pres.err = errInvalidCVEID => (prefixOK /\ yearOK)

C4_Witness ==
    /\ pc = "parsed"
    /\ pin = <<<<"X", "X", "X">>, <<"1", "9">>, <<"7", "x">>>>
    /\ pres.err = errInvalidCVEPrefix

\* C5: a sequence part of fewer than 4 characters is left-padded with "0" to
\* exactly 4 before validation, bucketing and URL construction; one of 4 or
\* more characters is left as it is.
C5_ZeroPadding ==
    (pc = "parsed" /\ Len(pin) \in 1..3) =>
        LET part == pin[Len(pin)]
            n == Len(part)
        IN /\ n >= 4 => pres.ref = part
           /\ n < 4 =>
                /\ Len(pres.ref) = 4
                /\ \A i \in 1..(4 - n) : pres.ref[i] = "0"
                /\ \A i \in 1..n : pres.ref[4 - n + i] = part[i]
                /\ (Len(pin) = 3 /\ ToUpper(pin[1]) = <<"C", "V", "E">> /\ FourDigits(pin[2])
                        /\ \A i \in 1..n : part[i] \in Digits)
                       => /\ pres.err = errNil
                          /\ ures.url = <<URLBase, "/">> \o pin[2] \o <<"/", pres.ref[1]>>
                                            \o <<"x", "x", "x", "/", "C", "V", "E", "-">> \o pin[2]
                                            \o <<"-">> \o pres.ref \o <<".json">>

C5_Witness ==
    /\ pc = "parsed"
    /\ pid = <<"c", "v", "e", "-", "2", "0", "1", "9", "-", "0", "7">>
    /\ pres = [prefix |-> <<"C", "V", "E">>, year |-> <<"2", "0", "1", "9">>,
               ref |-> <<"0", "0", "0", "7">>, err |-> errNil]
    /\ ures.url = <<URLBase, "/", "2", "0", "1", "9", "/", "0", "x", "x", "x", "/",
                    "C", "V", "E", "-", "2", "0", "1", "9", "-", "0", "0", "0", "7", ".json">>

\* s ends with t
EndsWith(s, t) == Len(t) <= Len(s) /\ SubSeq(s, Len(s) - Len(t) + 1, Len(s)) = t

YearText == (2019 :> <<"2", "0", "1", "9">>) @@ (2026 :> <<"2", "0", "2", "6">>)

\* C6: one part is the sequence number, with the current year and the prefix
\* CVE; two parts are year and sequence number, with the prefix CVE; three are
\* prefix (uppercased), year and sequence number; four or more fail with
\* InvalidIdentifier.
C6_SplitCount ==
    (pc = "parsed") =>
        /\ Len(pin) = 1 => /\ pres.prefix = <<"C", "V", "E">>
                           /\ pres.year = YearText[now]
                           /\ EndsWith(pres.ref, pin[1])
        /\ Len(pin) = 2 => /\ pres.prefix = <<"C", "V", "E">>
                           /\ pres.year = pin[1]
                           /\ EndsWith(pres.ref, pin[2])
        /\ Len(pin) = 3 => /\ pres.prefix = ToUpper(pin[1])
                           /\ pres.year = pin[2]
                           /\ EndsWith(pres.ref, pin[3])
        /\ Len(pin) >= 4 <=> pres.err = errInvalidCVE

C6_Witness ==
    /\ pc = "parsed"
    /\ pin = <<<<"7", "0", "0", "7">>>>
    /\ now = 2026
    /\ pres = [prefix |-> <<"C", "V", "E">>, year |-> <<"2", "0", "2", "6">>,
               ref |-> <<"7", "0", "0", "7">>, err |-> errNil]

\* C7: with --dryrun no identifier, valid, invalid or "-", causes a fetch (no
\* HTTP request, no read of standard input as a body) or a write to standard
\* output.
C7_DryRun ==
    argv.dryrun =>
        /\ reqs = <<>>
        /\ "http" \notin steps
        /\ "stdin" \notin steps
        /\ out = <<>>
        /\ pc \in {"scan", "run", "emit", "done"}

C7_Witness ==
    /\ argv.dryrun
    /\ IterationOver
    /\ url = Sentinel
    /\ stdin # EmptyBody

\* the identifier's fetch came back with a status that is not 200
StatusFailure == "http" \in steps /\ ~resp.fail /\ resp.status # 200

\* the identifier's body decoded into a record without any description
NoDescription ==
    /\ "decode" \in steps
    /\ pc # "crashed"
    /\ Unmarshal(body) = "ok"
    /\ Len(body.descr) = 0

\* t is s without its leading and trailing white space
IsTrimOf(t, s) ==
    /\ t = <<>> \/ (t[1] \notin Whitespace /\ t[Len(t)] \notin Whitespace)
    /\ \E i \in 1..(Len(s) + 1) :
        /\ i + Len(t) - 1 <= Len(s)
        /\ t = SubSeq(s, i, i + Len(t) - 1)
        /\ \A j \in 1..Len(s) : (j < i \/ j >= i + Len(t)) => s[j] \in Whitespace

StatusText == (404 :> <<"4", "0", "4">>) @@ (500 :> <<"5", "0", "0">>)

LastLine(lines) == lines[Len(lines)]

C8_State ==
    /\ StatusFailure =>
        /\ err.kind = "status"
        /\ \E t \in {SubSeq(err.msg, 5, Len(err.msg))} :
            /\ err.msg = StatusText[resp.status] \o <<": ">> \o t
            /\ IsTrimOf(t, resp.body.bytes)
        /\ (resp.status = 404 /\ resp.body = NotFoundBody)
               => err.msg = <<"4", "0", "4", ": ", "not found">>
        /\ "decode" \notin steps
        /\ "render" \notin steps
        /\ out = <<>>
        /\ pc \in {"emit", "scan", "done"}
    /\ NoDescription =>
        /\ err = errNoDescr
        /\ "render" \notin steps
        /\ out = <<>>
        /\ pc \in {"emit", "scan", "done"}

C8_Step ==
    (pc = "emit" /\ (StatusFailure \/ NoDescription)) =>
        /\ pc' = "scan"
        /\ out' = <<>>
        /\ LastLine(diag') = <<"error:", " ">> \o err.msg \o <<"\n">>

\* C8: a status that is not 200 is a failure carrying the status code and the
\* trimmed body, with no decode and no render; a decoded record without
\* descriptions is reported as NoDescription, with no render; in both cases
\* nothing is written to standard output for the identifier and the loop goes
\* on to the next identifier.
C8_ShortCircuit == []C8_State /\ [][C8_Step]_vars

C8_Witness ==
    /\ IterationOver
    /\ resp.status = 404
    /\ resp.body = NotFoundBody
    /\ LastLine(diag) = <<"error:", " ", "4", "0", "4", ": ", "not found", "\n">>
    /\ out = <<>>
    /\ steps = {"parse", "http"}

\* line holds the bytes b, in order and without a gap
Contains(line, b) ==
    \E i \in 1..(Len(line) + 1) :
        i + Len(b) - 1 <= Len(line) /\ SubSeq(line, i, i + Len(b) - 1) = b

\* the execution of the template failed in this iteration
ExecFailure == "render" \in steps /\ err.kind = "exec"

\* C9 as claimed: the bytes rendered before a failure of the execution are
\* surfaced by the run loop with the error report, not discarded.
C9_PartialSurfaced ==
    (IterationOver /\ ExecFailure /\ buf # <<>>) =>
        \/ \E i \in 1..Len(out) : out[i] = buf
        \/ \E i \in 1..Len(diag) : Contains(diag[i], buf)

\* C9 as amended: the bytes rendered before a failure of the execution are
\* returned with the error up to main, which writes the error alone to
\* standard error and the bytes nowhere.
C9_PartialReturnedNotWritten ==
    ExecFailure =>
        /\ buf # <<>>
        /\ argv.format = FormatPartial => buf = <<"ID: ", body.id, " ">>
        /\ out = <<>>
        /\ \A i \in 1..Len(diag) : ~Contains(diag[i], buf)
        /\ pc = "scan" => LastLine(diag) = <<"error:", " ">> \o err.msg \o <<"\n">>

C9_Witness ==
    /\ IterationOver
    /\ ExecFailure
    /\ buf = <<"ID: ", "CVE-2019-5007", " ">>
    /\ out = <<>>

\* a fraction of a second: nothing, or a point and digits
FractionOK(r) == r = <<>> \/ (Len(r) >= 2 /\ r[1] = "." /\ \A i \in 2..Len(r) : r[i] \in Digits)

\* a zone: nothing, Z, or a numeric offset +hh:mm
ZoneOK(r) ==
    \/ r = <<>>
    \/ r = <<"Z">>
    \/ /\ Len(r) = 6
       /\ r[1] \in {"+", "-"}
       /\ r[4] = ":"
       /\ \A i \in {2, 3, 5, 6} : r[i] \in Digits

\* the grammar of timestamps: a quoted date and time to the second, then an
\* optional fraction, then an optional Z or numeric offset
InGrammar(b) ==
    /\ Len(b) >= 21
    /\ b[1] = Quote
    /\ b[Len(b)] = Quote
    /\ TimeParseOK(SubSeq(b, 2, 20))
    /\ \E k \in 20..(Len(b) - 1) :
        FractionOK(SubSeq(b, 21, k)) /\ ZoneOK(SubSeq(b, k + 1, Len(b) - 1))

\* the body does not decode into a record
Undecodable(b) == ~b.json \/ \E i \in 1..Len(b.ts) : ~InGrammar(b.ts[i])

\* C10: for a body that cannot be decoded (invalid JSON, or a timestamp of any
\* length or content outside the grammar) the decoder returns an error; the
\* process does not crash, nothing is rendered for the identifier, and main
\* goes on.
C10_DecodeFailureReported ==
    ("decode" \in steps /\ Undecodable(body)) =>
        /\ pc \in {"emit", "scan", "done"}
        /\ err = errDecode
        /\ "render" \notin steps
        /\ out = <<>>

\* the characters mdescape escapes
EscapeSet == {"\\", "*", "_", "#", Grave, "[", "]", "(", ")", ">", "+", "-", ".", "!", "|", "~"}

\* the number of characters of the set among the first i characters of s
EscapedUpTo(s, i) == Cardinality({j \in 1..i : s[j] \in EscapeSet})

\* t is s with one backslash before each character of the set, and nothing else
EscapedOnce(s, t) ==
    /\ Len(t) = Len(s) + EscapedUpTo(s, Len(s))
    /\ \A i \in 1..Len(s) :
        /\ t[i + EscapedUpTo(s, i)] = s[i]
        /\ s[i] \in EscapeSet => t[i + EscapedUpTo(s, i) - 1] = "\\"

\* C11: mdescape returns its input with each character of the set
\* \ * _ # (grave accent) [ ] ( ) > + - . ! | ~ preceded by exactly one backslash and every
\* other character unchanged, the backslashes it writes never escaped again;
\* A*B|C gives A\*B\|C; and it is not idempotent: for every text with a
\* character of the set, escaping the result once more gives another text.
C11_MarkdownEscape ==
    /\ pc \in {"escaped", "escaped2"} =>
        /\ EscapedOnce(mdin, mdout)
        /\ mdin = textExample => mdout = <<"A", "\\", "*", "B", "\\", "|", "C">>
    /\ pc = "escaped2" =>
        /\ EscapedOnce(mdout, mdout2)
        /\ (\E i \in 1..Len(mdin) : mdin[i] \in EscapeSet) => mdout2 # mdout
        /\ (\A i \in 1..Len(mdin) : mdin[i] \notin EscapeSet) => mdout2 = mdin

C11_Witness ==
    /\ pc = "escaped2"
    /\ mdin = textExample
    /\ mdout = <<"A", "\\", "*", "B", "\\", "|", "C">>
    /\ mdout2 = <<"A", "\\", "\\", "\\", "*", "B", "\\", "\\", "\\", "|", "C">>

\* the template of this run was executed for the identifier of this iteration
Rendered(f) == "render" \in steps /\ argv.format = f /\ pc \in {"emit", "scan"}

\* t is s with every character c replaced by r, and nothing else changed
AllReplaced(s, t, c, r) ==
    /\ Len(t) = Len(s)
    /\ \A i \in 1..Len(s) : t[i] = (IF s[i] = c THEN r ELSE s[i])

\* the line the helper replace writes for a pattern that does not compile
RegexDiagnostic == <<"error: ", "error parsing regexp">>

\* C12: a call of the helper replace with a pattern that does not compile
\* writes a diagnostic and returns its text unmodified; the rendering goes on
\* to its end without a failure and the output of the identifier is written
\* to standard output.  With a pattern that compiles the text is returned with
\* every match replaced.
C12_LenientReplace ==
    /\ Rendered(FormatBadRegex) =>
        /\ err = nil
        /\ buf = body.descr[1] \o <<"\n">>
        /\ \E i \in 1..Len(diag) : diag[i] = RegexDiagnostic
        /\ pc = "scan" => (out = <<buf>> /\ LastLine(diag) = RegexDiagnostic)
    /\ Rendered(FormatDefault) =>
        /\ err = nil
        /\ \E t \in {SubSeq(buf, 4, Len(buf) - 1)} :
            /\ buf = <<"*", body.id, "*: ">> \o t \o <<"\n">>
            /\ AllReplaced(body.descr[1], t, "\n", " ")
        /\ \A i \in 1..Len(diag) : diag[i] # RegexDiagnostic
        /\ pc = "scan" => out = <<buf>>

C12_Witness ==
    /\ IterationOver
    /\ argv.format = FormatBadRegex
    /\ body = GoodDoc
    /\ out = << <<"A flaw", "\n", "in X.", "\n">> >>
    /\ LastLine(diag) = RegexDiagnostic

\* the identifier of this iteration does not parse
ParseFailure == "parse" \in steps /\ cve # Sentinel /\ parseID(cve, now).err # errNil

\* the fetch of this iteration failed: no response, or a status that is not 200
FetchFailure == "http" \in steps /\ (resp.fail \/ resp.status # 200)

\* the body of this iteration was handed to the decoder, which returned an error
DecodeFailure == "decode" \in steps /\ pc # "crashed" /\ Unmarshal(body) = "error"

\* the template of this iteration did not parse or did not execute to its end
RenderFailure == "render" \in steps /\ argv.format \in {FormatSyntax, FormatPartial}

\* some stage of the identifier of this iteration failed
StageFailure == FetchFailure \/ DecodeFailure \/ NoDescription \/ RenderFailure

\* a line of the diagnostic stream is about the failure of this iteration
FailureLine(l) ==
    \/ Len(l) >= 2 /\ l[1] = "error:"
    \/ Len(l) >= 2 /\ l[1] = "error: " /\ Contains(l, cve)

Stage ==
    [scan |-> 0, run |-> 1, fetch |-> 2, decode |-> 3, format |-> 4, emit |-> 5,
     done |-> 6, crashed |-> 6]

C14_State ==
    /\ Len(reqs) <= 1
    /\ Len(out) <= 1
    /\ pc \in {"run", "fetch", "decode", "format", "emit"} =>
        (cve # <<>> /\ cve[1] \notin Whitespace /\ cve[Len(cve)] \notin Whitespace)
    /\ (pc = "scan" /\ cve = <<>>) =>
        (steps = {} /\ reqs = <<>> /\ out = <<>> /\ diag = <<>>)
    /\ out # <<>> => (out = <<buf>> /\ pc \in {"scan", "done"})

C14_Step ==
    /\ (cve' # cve \/ nscan' # nscan) => (pc = "scan" /\ nscan' = nscan + 1)
    /\ pc # "scan" => (Stage[pc'] > Stage[pc] \/ (pc = "emit" /\ pc' = "scan"))
    /\ pc = "scan" => (pc' \in {"scan", "run", "done"} /\ (pc' = "run" => steps' = {}))
    /\ reqs' # reqs =>
        \/ pc = "scan" /\ reqs' = <<>>
        \/ pc = "fetch" /\ reqs = <<>> /\ reqs' = <<url>>
    /\ out' # out =>
        \/ pc = "scan" /\ out' = <<>>
        \/ pc = "emit" /\ out = <<>> /\ out' = <<buf>> /\ cve' = cve /\ nscan' = nscan
    /\ (pc = "scan" /\ diag' # diag) => (diag' = <<>> \/ pc' = "done")
    /\ stdin' # stdin => pc = "fetch"

\* C14: the identifiers are processed one at a time in the order the scanner
\* returns them, blank lines skipped; the stages of an identifier follow one
\* another without a step back, with at most one HTTP request and no second
\* try; whatever is written for an identifier is written before the scanner
\* returns the next one, so the writes to standard output follow the order of
\* the identifiers.
C14_Sequential == []C14_State /\ [][C14_Step]_vars

C14_Witness ==
    /\ IterationOver
    /\ nscan = MaxLines
    /\ Len(reqs) = 1
    /\ resp.body = GoodDoc
    /\ out = << <<"*", "CVE-2019-5007", "*: ", "A flaw", " ", "in X.", "\n">> >>

\* the bytes the fetch of this iteration returned without an error
FetchedBytes ==
    IF "http" \in steps
    THEN (IF ~resp.fail /\ resp.status = 200 THEN resp.body.bytes ELSE <<>>)
    ELSE IF "stdin" \in steps
    THEN (IF argv.format.src = "json" THEN buf ELSE body.bytes)
    ELSE <<>>

\* the body of this iteration decoded into a record
Decoded == "decode" \in steps /\ pc # "crashed" /\ Unmarshal(body) = "ok"

\* the four diagnostics of this iteration that depend on the verbosity, each
\* as a sequence of one line, or of none where the iteration gives no cause for
\* it; exempt tells whether --format json keeps the fetched bytes from the log
Layers(exempt) ==
    << IF ParseFailure
       THEN << <<"error: ">> \o cve \o <<": ", parseID(cve, now).err,
                                        ": format is CVE-<YYYY>-<NNNN...>\n">> >>
       ELSE <<>>,
       IF "parse" \in steps /\ ~ParseFailure THEN <<url \o <<"\n">>>> ELSE <<>>,
       IF FetchedBytes # <<>> /\ ~(exempt /\ argv.format.src = "json")
       THEN <<FetchedBytes>> ELSE <<>>,
       IF Decoded THEN << <<"%+v", body.id>> >> ELSE <<>> >>

\* the lines of the layers L that are written at level v
LayeredLines(L, v) ==
    (IF v > 0 THEN L[1] ELSE <<>>) \o (IF v > 1 THEN L[2] ELSE <<>>)
        \o (IF v > 2 THEN L[3] ELSE <<>>) \o (IF v > 3 THEN L[4] ELSE <<>>)

\* a line of the diagnostic stream that is written whatever the verbosity: an
\* error line of main, the diagnostic of the helper replace, a panic
Ungated(l) ==
    \/ l[1] = "error:"
    \/ l = RegexDiagnostic
    \/ l[1] = "panic: runtime error: slice bounds out of range"

GatedOf(lines) == SelectSeq(lines, LAMBDA l : ~Ungated(l))

\* every line of a is a line of b
LinesAmong(a, b) == \A i \in 1..Len(a) : \E j \in 1..Len(b) : b[j] = a[i]

\* C15 as claimed: the diagnostics that depend on the verbosity are exactly the
\* parse failure above 0, the URL above 1, the fetched bytes above 2 and the
\* decoded record above 3; what is written at a level is written at every
\* higher level; and every body fetched with at least one byte is logged at a
\* level above 2.
C15_LayeredVerbosity ==
    pc \in {"scan", "emit", "crashed"} =>
        LET L == Layers(FALSE)
        IN /\ GatedOf(diag) = LayeredLines(L, argv.verbose)
           /\ \A v, w \in 0..MaxVerbose :
               v < w => LinesAmong(LayeredLines(L, v), LayeredLines(L, w))

\* C15 as amended: the same, except that with --format json the fetched bytes
\* are not logged at any level: they are logged at a level above 2 for every
\* body of at least one byte fetched under another format.
C15_LayeredExceptJSON ==
    pc \in {"scan", "emit", "crashed"} =>
        LET L == Layers(TRUE)
        IN /\ GatedOf(diag) = LayeredLines(L, argv.verbose)
           /\ \A v, w \in 0..MaxVerbose :
               v < w => LinesAmong(LayeredLines(L, v), LayeredLines(L, w))
           /\ (FetchedBytes # <<>> /\ argv.verbose > 2 /\ argv.format.src # "json")
                  => \E i \in 1..Len(diag) : diag[i] = FetchedBytes
           /\ argv.format.src = "json" => Len(GatedOf(diag)) <= 1

C15_Witness ==
    /\ IterationOver
    /\ argv.verbose = 4
    /\ argv.format = FormatJSON
    /\ FetchedBytes = GoodDoc.bytes
    /\ diag = << FormatURL(CVE, <<"2", "0", "1", "9">>, <<"5", "0", "0", "7">>) \o <<"\n">> >>

\* the fetch of this iteration returned no error and no byte
EmptyFetch ==
    \/ "http" \in steps /\ ~resp.fail /\ resp.status = 200 /\ resp.body.bytes = <<>>
    \/ "stdin" \in steps /\ FetchedBytes = <<>>

C16_State ==
    EmptyFetch =>
        /\ pc \in {"emit", "scan", "done"}
        /\ err = nil
        /\ buf = <<>>
        /\ out = <<>>
        /\ steps \in {{"parse", "http"}, {"parse", "stdin"}}
        /\ pc # "done" => \A i \in 1..Len(diag) : (diag[i][1] # "error:" /\ diag[i][1] # "error: ")

C16_Step ==
    /\ (pc = "fetch" /\ url = Sentinel) =>
        /\ stdin' = EmptyBody
        /\ stdin.bytes = <<>> => (pc' = "emit" /\ buf' = <<>> /\ err' = nil /\ diag' = diag)
    /\ (pc = "fetch" /\ url # Sentinel /\ ~resp'.fail /\ resp'.status = 200
            /\ resp'.body.bytes = <<>>)
           => (pc' = "emit" /\ buf' = <<>> /\ err' = nil /\ diag' = diag)
    /\ (pc = "emit" /\ EmptyFetch) => (pc' = "scan" /\ out' = <<>> /\ diag' = diag)

\* C16: a fetch that succeeds with no byte (a status 200 with an empty body,
\* or the sentinel "-" when standard input is empty or was read to its end by
\* an earlier "-") is not an error: nothing is decoded, checked for a
\* description or rendered, nothing is written to standard output and no
\* failure is reported, and main goes on to the next identifier.
C16_EmptyBody == []C16_State /\ [][C16_Step]_vars

C16_Witness ==
    /\ IterationOver
    /\ nscan >= 2
    /\ url = Sentinel
    /\ steps = {"parse", "stdin"}
    /\ ~argv.dryrun
    /\ argv.format = FormatDefault
    /\ argv.verbose = 1
    /\ stdin = EmptyBody
    /\ buf = <<>>
    /\ out = <<>>
    /\ diag = <<>>

\* the HTTP fetch of this iteration returned a body of at least one byte
FetchedOverHTTP ==
    "http" \in steps /\ ~resp.fail /\ resp.status = 200 /\ resp.body.bytes # <<>>

C17_State ==
    /\ argv.format.src = "json" =>
        /\ "decode" \notin steps
        /\ "render" \notin steps
        /\ pc \notin {"decode", "format", "crashed"}
        /\ err.kind \in {"nil", "transport", "status"}
        /\ FetchedOverHTTP =>
            /\ err = nil
            /\ buf = resp.body.bytes
            /\ pc = "scan" => out = <<resp.body.bytes>>
            /\ \A i \in 1..Len(diag) :
                /\ diag[i] # resp.body.bytes
                /\ diag[i][1] # "%+v"
                /\ pc # "done" => diag[i][1] # "error:"
    /\ (argv.format.src # "json" /\ FetchedOverHTTP /\ pc \in {"emit", "scan"}) =>
        "decode" \in steps

C17_Step ==
    /\ (argv.format.src = "json" /\ pc = "fetch" /\ url = Sentinel /\ stdin.bytes # <<>>) =>
        (pc' = "emit" /\ buf' = stdin.bytes /\ err' = nil /\ diag' = diag)
    /\ (argv.format.src = "json" /\ pc = "emit" /\ err = nil /\ buf # <<>>) =>
        (pc' = "scan" /\ out' = <<buf>> /\ diag' = diag)

\* C17: when the format is exactly the word json, every body of at least one
\* byte that was fetched without an error is written to standard output as it
\* is, and is never decoded, checked for descriptions or rendered: a body that
\* is not JSON or has no description is written without a decode failure or a
\* NoDescription being reported, and neither the fetched bytes nor the decoded
\* record are written to standard error for it.  Under any other format a
\* fetched body is handed to the decoder.
C17_RawPassThrough == []C17_State /\ [][C17_Step]_vars

C17_Witness ==
    /\ IterationOver
    /\ argv.format = FormatJSON
    /\ argv.verbose = 4
    /\ resp.status = 200
    /\ resp.body = NotFoundBody
    /\ out = <<NotFoundBody.bytes>>
    /\ Len(diag) = 1

====
